---------------------------- MODULE Spec2Model ----------------------------
(***************************************************************************)
(* Model of the Telegram -> Firebase movie ingestion bot                   *)
(* (src/telegram_bot.py): the in-memory submission store pending_movies,   *)
(* the two message handlers handle_photo / handle_video, the handler       *)
(* dispatch of the PTB application, the blob store (bucket), the Realtime  *)
(* Database node "movies" (catalog) and the staged temporary files.        *)
(*                                                                         *)
(* Text is modelled as a sequence of one-character strings, so that        *)
(* str.lower, the substring test, splitlines, split and strip are computed *)
(* as Python computes them.                                                *)
(*                                                                         *)
(* Every webhook request runs its handler on an event loop of its own      *)
(* (telegram_webhook, lines 201-230), so handlers of different requests    *)
(* may interleave; a handler is cut into steps at its awaits and at its    *)
(* blocking network calls.  reply_text is taken to be reliable.            *)
(***************************************************************************)
EXTENDS Integers, Sequences, FiniteSets, TLC

\* ------------------------------------------------------------------ bounds
\* Number of updates (webhook requests) delivered in one behaviour.
MaxEvents == 3

\* ------------------------------------------------------------------- text
\* Python's None.  A one-element tuple whose element is no character, so it
\* differs from every text.
None == <<"None">>

\* The empty str.
EmptyStr == <<>>

Whitespace == {" ", "\n", "\t"}

\* str.lower() on one character (the letters the labels use).
LowerChar(c) ==
    CASE c = "T" -> "t"
      [] c = "Í" -> "í"
      [] c = "U" -> "u"
      [] c = "L" -> "l"
      [] c = "O" -> "o"
      [] c = "D" -> "d"
      [] c = "S" -> "s"
      [] c = "Á" -> "á"
      [] c = "G" -> "g"
      [] OTHER -> c

\* str.lower()
Lower(s) == [i \in 1..Len(s) |-> LowerChar(s[i])]

\* s[i:] for a 1-based i
From(s, i) == IF i > Len(s) THEN <<>> ELSE SubSeq(s, i, Len(s))

\* p occurs in s at 1-based position i
OccursAt(p, s, i) ==
    /\ i >= 1
    /\ i + Len(p) - 1 <= Len(s)
    /\ \A k \in 1..Len(p) : s[i + k - 1] = p[k]

\* `p in s` on str
Contains(p, s) == \E i \in 1..(Len(s) + 1) : OccursAt(p, s, i)

\* s.find(p) as a 1-based position, 0 when p does not occur
Find(p, s) ==
    IF Contains(p, s)
    THEN CHOOSE i \in 1..(Len(s) + 1) :
            /\ OccursAt(p, s, i)
            /\ \A j \in 1..(i - 1) : ~OccursAt(p, s, j)
    ELSE 0

\* s.split(p, 1)[-1]: the text after the first occurrence of p, the whole of
\* s when p does not occur
SplitLast(s, p) ==
    IF Contains(p, s) THEN From(s, Find(p, s) + Len(p)) ELSE s

\* str.strip()
RECURSIVE LStrip(_)
LStrip(s) ==
    IF s # <<>> /\ Head(s) \in Whitespace THEN LStrip(Tail(s)) ELSE s

RECURSIVE RStrip(_)
RStrip(s) ==
    IF s # <<>> /\ s[Len(s)] \in Whitespace
    THEN RStrip(SubSeq(s, 1, Len(s) - 1))
    ELSE s

Strip(s) == RStrip(LStrip(s))

\* str.splitlines(): lines without their terminators; no empty last line
RECURSIVE SplitLines(_)
SplitLines(s) ==
    IF s = <<>> THEN <<>>
    ELSE IF Contains(<<"\n">>, s)
         THEN <<SubSeq(s, 1, Find(<<"\n">>, s) - 1)>>
                \o SplitLines(From(s, Find(<<"\n">>, s) + 1))
         ELSE <<s>>

\* The labels of parse_metadata and the title test of handle_photo
LabelTitulo == <<"T", "í", "t", "u", "l", "o">>
LabelDiretor == <<"D", "i", "r", "e", "t", "o", "r">>
LabelAudio == <<"Á", "u", "d", "i", "o">>
LabelLancamento == <<"L", "a", "n", "ç", "a", "m", "e", "n", "t", "o">>
LabelGeneros == <<"G", "ê", "n", "e", "r", "o", "s">>
LabelSinopse == <<"S", "i", "n", "o", "p", "s", "e", ":">>
SemTitulo == <<"S", "e", "m", " ", "t", "í", "t", "u", "l", "o">>

\* parse_metadata.get(label): the first line that contains the label,
\* case-insensitively; the text after its first colon, stripped
RECURSIVE GetInLines(_, _)
GetInLines(lines, label) ==
    IF lines = <<>> THEN None
    ELSE IF Contains(Lower(label), Lower(Head(lines)))
         THEN Strip(SplitLast(Head(lines), <<":">>))
         ELSE GetInLines(Tail(lines), label)

Get(text, label) == GetInLines(SplitLines(text), label)

\* Truthiness that takes the empty str for a value
Truthy_OnlyNone(v) == v # None

\* Python truthiness of an Optional[str]
Truthy(v) == v # None /\ v # EmptyStr

\* parse_metadata(text)
parse_metadata(text) ==
    [title    |-> IF Truthy(Get(text, LabelTitulo))
                  THEN Get(text, LabelTitulo) ELSE SemTitulo,
     synopsis |-> IF Contains(LabelSinopse, text)
                  THEN Strip(SplitLast(text, LabelSinopse)) ELSE None,
     director |-> Get(text, LabelDiretor),
     audio    |-> Get(text, LabelAudio),
     year     |-> Get(text, LabelLancamento),
     genres   |-> Get(text, LabelGeneros)]

\* --------------------------------------------------------- configuration
Chats == {1, 2}

\* TELEGRAM_GROUP_ID: the one conversation the bot serves
ALLOWED_CHAT_ID == 1

\* ---------------------------------------------------------------- updates
\* A caption with a title label, and one without.
CaptionTitled == <<"T", "í", "t", "u", "l", "o", ":", " ", "D">>
CaptionUntitled == <<"o", "i">>

\* The caption of a cover that carries another title.
CaptionRetitled == <<"T", "í", "t", "u", "l", "o", ":", " ", "E">>
Bodies == {CaptionTitled, CaptionUntitled}

\* What a message carries: a photo, a document of some mime type, a video,
\* or text only.
MediaKinds == {"photo", "image_document", "video", "video_document", "document"}

\* An inbound update: a media message with or without a caption, or a text
\* message (body = its text, it has no caption).  The allow-listed
\* conversation sends every kind of update; the other conversations send
\* the photo and video updates, with and without the titled caption.  The
\* allow-listed conversation also sends a photo under another title.
Events ==
    [chat : {ALLOWED_CHAT_ID}, kind : MediaKinds, body : Bodies \cup {None}]
      \cup [chat : {ALLOWED_CHAT_ID}, kind : {"photo"}, body : {CaptionRetitled}]
      \cup [chat : {ALLOWED_CHAT_ID}, kind : {"text"}, body : Bodies]
      \cup [chat : Chats \ {ALLOWED_CHAT_ID}, kind : {"photo", "video"},
            body : {CaptionTitled, None}]

\* message.caption
Caption(e) == IF e.kind = "text" THEN None ELSE e.body

\* message.photo is non-empty
HasPhoto(e) == e.kind = "photo"

\* message.document is set
HasDocument(e) == e.kind \in {"image_document", "video_document", "document"}

\* message.video is set
HasVideo(e) == e.kind = "video"

\* message.document.mime_type, up to its "/"
MimeType(e) ==
    CASE e.kind = "image_document" -> "image"
      [] e.kind = "video_document" -> "video"
      [] OTHER -> "application"

\* file.file_name of the video or document of a message
FileName(e) ==
    IF e.kind = "video_document" THEN <<"m", ".", "m", "k", "v">> ELSE None

\* The file_id of the attachment of the n-th message: every message brings
\* a file of its own.
FileId(n) == n

\* filters.Caption at line 180: the message has a caption
FilterCaption(e) == Caption(e) # None

\* filters.VIDEO | filters.Document.VIDEO at line 181
FilterVideo(e) == HasVideo(e) \/ (HasDocument(e) /\ MimeType(e) = "video")

\* The handler an update is dispatched to: the first registered handler
\* whose filter matches, and no other.
Handler(e) ==
    IF FilterCaption(e) THEN "handle_photo"
    ELSE IF FilterVideo(e) THEN "handle_video"
    ELSE "none"

\* check_chat without its comparison: every conversation passes
check_chat_AllowsAll(e) == e.chat \in Chats

\* check_chat(update)
check_chat(e) == e.chat = ALLOWED_CHAT_ID

\* -------------------------------------------------------------- the state
VARIABLES
    pending_movies,   \* chat id -> {poster_file_id, metadata, created_at}
    catalog,          \* children of the "movies" node, by push key
    bucket,           \* names of the blobs in the storage bucket
    tmpfiles,         \* temporary files on disk
    clock,            \* time.time()
    updates           \* the updates delivered so far, each with the state
                      \* of the handler invocation that processes it

\* The state of the parts that run apart from the webhook application: the
\* caption parser on its own, firebase_service.py and bot.py.
VARIABLES
    caption_text,     \* the argument of a call of parse_metadata
    parsed,           \* what that call returned
    movies,           \* firebase_service: collection "movies", by document id
    saves,            \* firebase_service: the save_movie calls made so far
    filmes,           \* bot.py: the documents of collection "filmes"
    blobs,            \* bot.py: blob path -> the post that wrote it last
    posts             \* bot.py: the posts handled so far

elsewhere == <<caption_text, parsed, movies, saves, filmes, blobs, posts>>

vars == <<pending_movies, catalog, bucket, tmpfiles, clock, updates, elsewhere>>

\* pending_movies.get(chat_id) when there is no entry
NoPending == [absent |-> TRUE]

\* pending_movies.get(chat_id)
PendingGet(c) ==
    IF c \in DOMAIN pending_movies THEN pending_movies[c] ELSE NoPending

\* The pop left out: the store keeps the entry
PendingPop_KeepsEntry(c) == pending_movies

\* pending_movies.pop(chat_id, None)
PendingPop(c) ==
    [k \in (DOMAIN pending_movies) \ {c} |-> pending_movies[k]]

\* The value movies_ref.push() stores in the child it creates: push(value='')
PushPlaceholder == [value |-> EmptyStr]

\* The record of one update and the handler invocation that processes it.
Invocation(e, handler, pc, outcome, pending, replies) ==
    [chat |-> e.chat, kind |-> e.kind, body |-> e.body,
     handler |-> handler, pc |-> pc, outcome |-> outcome,
     pending |-> pending, movie_id |-> 0, poster_file |-> 0,
     poster_url |-> EmptyStr, video_url |-> EmptyStr,
     replies |-> replies, calls |-> <<>>]

EventOf(u) == [chat |-> u.chat, kind |-> u.kind, body |-> u.body]

\* No call of parse_metadata is under way
Unparsed == [unparsed |-> TRUE]

\* The parser on its own is not in use
ParserIdle == caption_text = EmptyStr /\ parsed = Unparsed

\* firebase_service.py is not in use
ServiceIdle == movies = <<>> /\ saves = <<>>

\* bot.py is not running
PostIdle == filmes = <<>> /\ blobs = <<>> /\ posts = <<>>

\* The webhook application after start-up
BotInit ==
    /\ pending_movies = <<>>
    /\ catalog = <<>>
    /\ bucket = {}
    /\ tmpfiles = {}
    /\ clock = 1
    /\ updates = <<>>

Init == BotInit /\ ParserIdle /\ ServiceIdle /\ PostIdle

\* ------------------------------------------------------------ handle_photo
\* The poster file id handle_photo takes from the n-th message
PosterFileId(e, n) ==
    IF HasPhoto(e) THEN FileId(n)
    ELSE IF HasDocument(e) /\ MimeType(e) = "image" THEN FileId(n)
    ELSE 0

\* The title test left out: every caption passes
LacksTitle_Never(text) == Len(text) < 0

\* "título" not in text.lower()
LacksTitle(text) == ~Contains(Lower(LabelTitulo), Lower(text))

\* handle_photo, whole: it awaits only its last statement
handle_photo(e) ==
    /\ Len(updates) < MaxEvents
    /\ Handler(e) = "handle_photo"
    /\ LET n == Len(updates) + 1
           image == HasPhoto(e) \/ (HasDocument(e) /\ MimeType(e) = "image")
       IN  IF ~check_chat(e)
           THEN /\ updates' = Append(updates,
                       Invocation(e, "handle_photo", "done", "blocked", NoPending, <<>>))
                /\ UNCHANGED <<pending_movies, clock>>
           ELSE IF ~image \/ LacksTitle(Caption(e))
           THEN /\ updates' = Append(updates,
                       Invocation(e, "handle_photo", "done", "ignored", NoPending, <<>>))
                /\ UNCHANGED <<pending_movies, clock>>
           ELSE IF PosterFileId(e, n) = 0
           THEN /\ updates' = Append(updates,
                       Invocation(e, "handle_photo", "done", "no_file_id", NoPending,
                                  <<"image_id_failed">>))
                /\ UNCHANGED <<pending_movies, clock>>
           ELSE /\ pending_movies' =
                       [c \in (DOMAIN pending_movies) \cup {e.chat} |->
                           IF c = e.chat
                           THEN [poster_file_id |-> PosterFileId(e, n),
                                 metadata |-> parse_metadata(Caption(e)),
                                 created_at |-> clock]
                           ELSE pending_movies[c]]
                /\ clock' = clock + 1
                /\ updates' = Append(updates,
                       Invocation(e, "handle_photo", "done", "accepted", NoPending,
                                  <<"accepted">>))
    /\ UNCHANGED <<catalog, bucket, tmpfiles, elsewhere>>

\* An update no handler matches is dropped by the application.
Unhandled(e) ==
    /\ Len(updates) < MaxEvents
    /\ Handler(e) = "none"
    /\ updates' = Append(updates,
           Invocation(e, "none", "done", "unhandled", NoPending, <<>>))
    /\ UNCHANGED <<pending_movies, catalog, bucket, tmpfiles, clock, elsewhere>>

\* ------------------------------------------------------------ handle_video
\* s.split(p)[-1]: the text after the last occurrence of p
RECURSIVE AfterLast(_, _)
AfterLast(s, p) ==
    IF Contains(p, s) THEN AfterLast(From(s, Find(p, s) + Len(p)), p) ELSE s

\* The extension of the video blob (line 156)
Ext(file_name) ==
    IF file_name # None /\ file_name # EmptyStr /\ Contains(<<".">>, file_name)
    THEN <<".">> \o AfterLast(file_name, <<".">>)
    ELSE <<".", "m", "p", "4">>

\* bucket.blob(f"movies/{movie_id}/poster.jpg").name
PosterBlob(movie_id) ==
    [movie_id |-> movie_id, stem |-> "poster", ext |-> <<".", "j", "p", "g">>]

\* bucket.blob(f"movies/{movie_id}/video{ext}").name
VideoBlob(movie_id, ext) ==
    [movie_id |-> movie_id, stem |-> "video", ext |-> ext]

\* build_download_url(blob)
build_download_url(blob) == <<"https://firebasestorage.googleapis.com", blob>>

\* tempfile.NamedTemporaryFile(delete=False, suffix=...): the file is closed
\* on leaving the with block and stays on disk
TempFile(movie_id, suffix) == [movie_id |-> movie_id, suffix |-> suffix]

\* handle_video with a rejection that records the video as a new submission
handle_video_StoresOnReject(e) ==
    /\ Len(updates) < MaxEvents
    /\ Handler(e) = "handle_video"
    /\ LET pending == PendingGet(e.chat)
       IN  IF ~check_chat(e)
           THEN /\ updates' = Append(updates,
                       Invocation(e, "handle_video", "done", "blocked", NoPending, <<>>))
                /\ UNCHANGED pending_movies
           ELSE IF pending = NoPending \/ "metadata" \notin DOMAIN pending
           THEN /\ updates' = Append(updates,
                       Invocation(e, "handle_video", "done", "rejected", pending,
                                  <<"wrong_order">>))
                /\ pending_movies' =
                       [c \in (DOMAIN pending_movies) \cup {e.chat} |->
                           IF c = e.chat
                           THEN [video_file_id |-> FileId(Len(updates) + 1)]
                           ELSE pending_movies[c]]
           ELSE /\ updates' = Append(updates,
                       Invocation(e, "handle_video", "push", "running", pending,
                                  <<"saving">>))
                /\ UNCHANGED pending_movies
    /\ UNCHANGED <<catalog, bucket, tmpfiles, clock, elsewhere>>

\* Lines 123-135: the gate, the read of the store, the two rejections, and the
\* "saving" reply that starts the pipeline
handle_video(e) ==
    /\ Len(updates) < MaxEvents
    /\ Handler(e) = "handle_video"
    /\ LET pending == PendingGet(e.chat)
           file == HasVideo(e) \/ HasDocument(e)
       IN  IF ~check_chat(e)
           THEN updates' = Append(updates,
                    Invocation(e, "handle_video", "done", "blocked", NoPending, <<>>))
           ELSE IF pending = NoPending \/ "metadata" \notin DOMAIN pending
           THEN updates' = Append(updates,
                    Invocation(e, "handle_video", "done", "rejected", pending,
                               <<"wrong_order">>))
           ELSE IF ~file \/ (HasDocument(e) /\ MimeType(e) # "video")
           THEN updates' = Append(updates,
                    Invocation(e, "handle_video", "done", "rejected", pending,
                               <<"invalid_video">>))
           ELSE updates' = Append(updates,
                    Invocation(e, "handle_video", "push", "running", pending,
                               <<"saving">>))
    /\ UNCHANGED <<pending_movies, catalog, bucket, tmpfiles, clock, elsewhere>>

\* The invocation i is a handle_video run at step pc
At(i, pc) ==
    /\ i \in 1..Len(updates)
    /\ updates[i].handler = "handle_video"
    /\ updates[i].pc = pc

\* Lines 136-137: movies_ref.push() posts an empty string as a new child of
\* "movies" and returns the reference to it; the request may fail, and the
\* exception leaves the handler
Push(i) ==
    /\ At(i, "push")
    /\ \E ok \in BOOLEAN :
          IF ok
          THEN /\ catalog' = Append(catalog, PushPlaceholder)
               /\ updates' = [updates EXCEPT ![i].pc = "poster",
                                             ![i].movie_id = Len(catalog) + 1]
          ELSE /\ updates' = [updates EXCEPT ![i].pc = "done",
                                             ![i].outcome = "push_raised"]
               /\ UNCHANGED catalog
    /\ UNCHANGED <<pending_movies, bucket, tmpfiles, clock, elsewhere>>

\* The return of line 151 left out: the run goes on to the video leg
AfterPosterLeg_NoReturn(end) == "video"

\* Where the run goes after the cover leg: on to the video leg, or into the
\* except block that ends with the return of line 151
AfterPosterLeg(end) == IF end = "ok" THEN "video" ELSE "poster_failed"

\* Lines 140-146: the cover leg.  It raises at get_file, at download_to_drive
\* or at upload_from_filename, or it completes.
PosterLeg(i) ==
    /\ At(i, "poster")
    /\ LET u == updates[i]
           tmp == TempFile(u.movie_id, <<".", "j", "p", "g">>)
           blob == PosterBlob(u.movie_id)
       IN  \E end \in {"get_file", "download", "upload", "ok"} :
             /\ tmpfiles' = IF end = "get_file" THEN tmpfiles ELSE tmpfiles \cup {tmp}
             /\ bucket' = IF end = "ok" THEN bucket \cup {blob} ELSE bucket
             /\ updates' =
                  [updates EXCEPT
                     ![i].pc = AfterPosterLeg(end),
                     ![i].poster_file = u.pending["poster_file_id"],
                     ![i].poster_url =
                         IF end = "ok" THEN build_download_url(blob) ELSE EmptyStr,
                     ![i].calls =
                         CASE end = "get_file" -> <<"get_file_poster">>
                           [] end = "download" ->
                                <<"get_file_poster", "download_poster">>
                           [] OTHER ->
                                <<"get_file_poster", "download_poster", "upload_poster">>]
    /\ UNCHANGED <<pending_movies, catalog, clock, elsewhere>>

\* Lines 147-151: the cover leg raised
PosterFailed(i) ==
    /\ At(i, "poster_failed")
    /\ pending_movies' = PendingPop(updates[i].chat)
    /\ updates' = [updates EXCEPT
                     ![i].pc = "done",
                     ![i].outcome = "poster_failed",
                     ![i].replies = Append(@, "poster_failed")]
    /\ UNCHANGED <<catalog, bucket, tmpfiles, clock, elsewhere>>

\* Lines 153-161: the video leg
VideoLeg(i) ==
    /\ At(i, "video")
    /\ LET u == updates[i]
           ext == Ext(FileName(EventOf(u)))
           tmp == TempFile(u.movie_id, ext)
           blob == VideoBlob(u.movie_id, ext)
       IN  \E end \in {"get_file", "download", "upload", "ok"} :
             /\ tmpfiles' = IF end = "get_file" THEN tmpfiles ELSE tmpfiles \cup {tmp}
             /\ bucket' = IF end = "ok" THEN bucket \cup {blob} ELSE bucket
             /\ updates' =
                  [updates EXCEPT
                     ![i].pc = IF end = "ok" THEN "publish" ELSE "video_failed",
                     ![i].video_url =
                         IF end = "ok" THEN build_download_url(blob) ELSE EmptyStr,
                     ![i].calls =
                         @ \o (CASE end = "get_file" -> <<"get_file_video">>
                                 [] end = "download" ->
                                      <<"get_file_video", "download_video">>
                                 [] OTHER ->
                                      <<"get_file_video", "download_video",
                                        "upload_video">>)]
    /\ UNCHANGED <<pending_movies, catalog, clock, elsewhere>>

\* Lines 162-166: the video leg raised
VideoFailed(i) ==
    /\ At(i, "video_failed")
    /\ pending_movies' = PendingPop(updates[i].chat)
    /\ updates' = [updates EXCEPT
                     ![i].pc = "done",
                     ![i].outcome = "video_failed",
                     ![i].replies = Append(@, "video_failed")]
    /\ UNCHANGED <<catalog, bucket, tmpfiles, clock, elsewhere>>

\* The record written from the entry the store holds when the write is made
MovieRecord_ReadsStore(u, now) ==
    LET data == IF u.chat \in DOMAIN pending_movies
                THEN pending_movies[u.chat].metadata ELSE u.pending.metadata
    IN  [title |-> data.title, synopsis |-> data.synopsis,
         director |-> data.director, audio |-> data.audio,
         year |-> data.year, genres |-> data.genres,
         posterUrl |-> u.poster_url, videoUrl |-> u.video_url,
         createdAt |-> now * 1000]

\* The record movie_ref.set writes (line 169)
MovieRecord(u, now) ==
    [title |-> u.pending.metadata.title,
     synopsis |-> u.pending.metadata.synopsis,
     director |-> u.pending.metadata.director,
     audio |-> u.pending.metadata.audio,
     year |-> u.pending.metadata.year,
     genres |-> u.pending.metadata.genres,
     posterUrl |-> u.poster_url,
     videoUrl |-> u.video_url,
     createdAt |-> now * 1000]

\* Lines 168-171: movie_ref.set, then the pop and the success reply; when the
\* write raises, the exception leaves the handler at line 169
Publish(i) ==
    /\ At(i, "publish")
    /\ \E ok \in BOOLEAN :
          IF ok
          THEN /\ catalog' = [catalog EXCEPT
                                ![updates[i].movie_id] = MovieRecord(updates[i], clock)]
               /\ clock' = clock + 1
               /\ pending_movies' = PendingPop(updates[i].chat)
               /\ updates' = [updates EXCEPT
                                ![i].pc = "done",
                                ![i].outcome = "saved",
                                ![i].replies = Append(@, "saved")]
          ELSE /\ updates' = [updates EXCEPT ![i].pc = "done",
                                             ![i].outcome = "set_raised"]
               /\ UNCHANGED <<catalog, clock, pending_movies>>
    /\ UNCHANGED <<bucket, tmpfiles, elsewhere>>

Next ==
    \/ \E e \in Events : handle_photo(e)
    \/ \E e \in Events : handle_video(e)
    \/ \E e \in Events : Unhandled(e)
    \/ \E i \in 1..MaxEvents : Push(i)
    \/ \E i \in 1..MaxEvents : PosterLeg(i)
    \/ \E i \in 1..MaxEvents : PosterFailed(i)
    \/ \E i \in 1..MaxEvents : VideoLeg(i)
    \/ \E i \in 1..MaxEvents : VideoFailed(i)
    \/ \E i \in 1..MaxEvents : Publish(i)

Spec == Init /\ [][Next]_vars

\* ------------------------------------------------------ reading the state
\* The updates of conversation c, in delivery order
UpdatesOf(c) == SelectSeq(updates, LAMBDA u : u.chat = c)

\* The invocation started the upload pipeline (it got past line 135)
Started(u) ==
    u.handler = "handle_video" /\ u.outcome \notin {"blocked", "rejected"}

\* This step delivers an update
Delivers == Len(updates') = Len(updates) + 1

\* The update this step delivers, with what its handler did on entry
Delivered == updates'[Len(updates')]

\* The update carries a cover: a photo or an image document
IsCover(u) == u.kind \in {"photo", "image_document"}

\* The update carries a video
IsVideo(u) == u.kind \in {"video", "video_document"}

\* The text contains a title label, in any letter case
HasTitleLabel(text) ==
    \E i \in 1..Len(text) : OccursAt(<<"t", "í", "t", "u", "l", "o">>, Lower(text), i)

\* The update has a caption with a title label
HasTitledCaption(u) ==
    u.kind # "text" /\ u.body # None /\ HasTitleLabel(u.body)

\* The stage of a store entry, in the terms of the specification
Stage(p) ==
    IF "metadata" \in DOMAIN p THEN "AwaitingVideo" ELSE "AwaitingMetadata"

\* The catalog entry is a complete record
Complete(node) ==
    /\ {"posterUrl", "videoUrl", "title"} \subseteq DOMAIN node
    /\ node.posterUrl # EmptyStr
    /\ node.videoUrl # EmptyStr

\* The push keys the runs of conversation c created
KeysOf(c) ==
    {updates[i].movie_id : i \in {j \in 1..Len(updates) :
        updates[j].chat = c /\ updates[j].movie_id # 0}}

\* The number of runs conversation c started
RunsOf(c) ==
    Cardinality({i \in 1..Len(updates) :
        updates[i].chat = c /\ Started(updates[i])})

\* All the handlers of conversation c have returned and none of them met a
\* failing upload or a failing write
QuietAndUnfailed(c) ==
    \A i \in 1..Len(updates) :
        updates[i].chat = c =>
            /\ updates[i].pc = "done"
            /\ updates[i].outcome \notin
                 {"push_raised", "set_raised", "poster_failed", "video_failed"}

\* ------------------------------------------------------------------- C1
\* The updates of c are exactly: a cover without caption, a text with a
\* title label, a video
ThreeMessages(c) ==
    LET us == UpdatesOf(c)
    IN  /\ Len(us) = 3
        /\ IsCover(us[1]) /\ us[1].body = None
        /\ us[2].kind = "text" /\ HasTitleLabel(us[2].body)
        /\ IsVideo(us[3]) /\ us[3].body = None

\* The updates of c are exactly: a cover whose caption has a title label, a
\* video without caption
TwoMessages(c) ==
    LET us == UpdatesOf(c)
    IN  /\ Len(us) = 2
        /\ IsCover(us[1]) /\ HasTitledCaption(us[1])
        /\ IsVideo(us[2]) /\ us[2].body = None

\* What C1 promises of conversation c: one pipeline run, one catalog record,
\* a complete one, and no store entry left
RoundTripResult(c) ==
    /\ RunsOf(c) = 1
    /\ Cardinality(KeysOf(c)) = 1
    /\ \A k \in KeysOf(c) : Complete(catalog[k])
    /\ c \notin DOMAIN pending_movies

EndsRun(i) ==
    /\ i \in 1..Len(updates)
    /\ updates[i].pc \in {"poster_failed", "video_failed", "publish"}
    /\ updates'[i].pc = "done"

\* C2: every way a started pipeline ends (cover failure, video failure,
\* catalog write failure, success) leaves the store without an entry for
\* the conversation.
C2_EveryEndClearsStore ==
    [][\A i \in 1..MaxEvents :
          EndsRun(i) => updates[i].chat \notin DOMAIN pending_movies']_vars

\* ------------------------------------------------------------------- C3
\* C3: every entry under the movies reference is a complete record, with
\* the cover address and the video address populated.
C3_CatalogEntriesComplete ==
    \A k \in 1..Len(catalog) : Complete(catalog[k])

\* ------------------------------------------------------------------- C4
FailureReplies(u) ==
    Cardinality({k \in 1..Len(u.replies) :
        u.replies[k] \in {"poster_failed", "video_failed"}})

\* C4: every fatal outcome of a run (cover leg, video leg, catalog write)
\* produces exactly one failure reply, and a failed run never sends the
\* success reply.
C4_OneFailureReply ==
    \A i \in 1..Len(updates) :
        (/\ updates[i].pc = "done"
         /\ updates[i].outcome \in {"poster_failed", "video_failed", "set_raised"})
            => /\ FailureReplies(updates[i]) = 1
               /\ \A k \in 1..Len(updates[i].replies) :
                     updates[i].replies[k] # "saved"

\* ------------------------------------------------------------------- C5
\* The store entry has a cover reference and metadata
HasCoverAndMetadata(p) ==
    {"poster_file_id", "metadata"} \subseteq DOMAIN p

EntryKept(c) ==
    /\ c \in DOMAIN pending_movies'
    /\ pending_movies'[c] = pending_movies[c]

\* C6 as stated: while a conversation has a submission in progress (it
\* awaits the video), an update that is not a video (a cover, a non-video
\* document, a text) leaves the store entry identical.
C6_UnexpectedArtifactKeepsEntry ==
    [][(/\ Delivers
        /\ Delivered.chat \in DOMAIN pending_movies
        /\ ~IsVideo(Delivered))
          => EntryKept(Delivered.chat)]_vars

\* C6 as amended: while a conversation has a submission in progress, an
\* update that is neither a video nor a cover whose caption has a title
\* label is ignored without a reply and leaves the store entry identical
\* (same cover reference, metadata and created_at); a cover whose caption
\* has a title label is accepted and replaces the entry with a new
\* submission.
C6_OnlyTitledCoverReplacesEntry ==
    [][(/\ Delivers
        /\ Delivered.chat \in DOMAIN pending_movies
        /\ ~IsVideo(Delivered))
          => IF IsCover(Delivered) /\ HasTitledCaption(Delivered)
             THEN /\ Delivered.outcome = "accepted"
                  /\ Delivered.chat \in DOMAIN pending_movies'
                  /\ pending_movies'[Delivered.chat].poster_file_id
                        = FileId(Len(updates'))
                  /\ pending_movies'[Delivered.chat].created_at
                        > pending_movies[Delivered.chat].created_at
             ELSE /\ EntryKept(Delivered.chat)
                  /\ Delivered.replies = <<>>]_vars

C6_Witness ==
    \E i \in 2..Len(updates) :
        /\ updates[i - 1].chat = ALLOWED_CHAT_ID
        /\ updates[i - 1].outcome = "accepted"
        /\ updates[i].chat = ALLOWED_CHAT_ID
        /\ updates[i].kind \in {"document", "photo"}
        /\ updates[i].outcome \in {"unhandled", "ignored"}
        /\ ALLOWED_CHAT_ID \in DOMAIN pending_movies
        /\ pending_movies[ALLOWED_CHAT_ID].poster_file_id = FileId(i - 1)

\* ------------------------------------------------------------------- C7
\* The update is a text without a title label, or has a caption without one
UntitledText(u) == u.body # None /\ ~HasTitleLabel(u.body)

\* C7: handling a text or caption without a title label changes nothing -
\* not the store, for any conversation, nor the catalog, the bucket, the
\* staged files or the clock - and sends no reply; so any number of such
\* events has the effect of none.
C7_UntitledTextIgnored ==
    [][(Delivers /\ UntitledText(Delivered))
          => /\ pending_movies' = pending_movies
             /\ catalog' = catalog
             /\ bucket' = bucket
             /\ tmpfiles' = tmpfiles
             /\ clock' = clock
             /\ Delivered.replies = <<>>
             /\ Delivered.pc = "done"]_vars

C7_Witness ==
    \E i \in 2..Len(updates) :
        /\ updates[i].chat = ALLOWED_CHAT_ID
        /\ updates[i].kind = "photo"
        /\ UntitledText(updates[i])
        /\ updates[i].handler = "handle_photo"
        /\ updates[i - 1].outcome = "accepted"
        /\ ALLOWED_CHAT_ID \in DOMAIN pending_movies

PosterCalls == {"get_file_poster", "download_poster", "upload_poster"}
VideoCalls == {"get_file_video", "download_video", "upload_video"}

\* The run attempted its video leg
VideoLegAttempted(u) ==
    \/ \E k \in 1..Len(u.calls) : u.calls[k] \in VideoCalls
    \/ \E b \in bucket : b.movie_id = u.movie_id /\ b.stem = "video"
    \/ u.video_url # EmptyStr

\* The cover leg of the run completed
PosterLegCompleted(u) ==
    /\ \E k \in 1..Len(u.calls) : u.calls[k] = "upload_poster"
    /\ PosterBlob(u.movie_id) \in bucket
    /\ u.poster_url # EmptyStr

\* C9: in a run the cover leg completes before the video leg begins - every
\* call of the cover leg precedes every call of the video leg - and a run
\* whose cover leg failed attempts no video retrieval and uploads no video
\* blob.
C9_CoverBeforeVideo ==
    \A i \in 1..Len(updates) :
        LET u == updates[i]
        IN  Started(u) =>
              /\ VideoLegAttempted(u) => PosterLegCompleted(u)
              /\ \A j, k \in 1..Len(u.calls) :
                    (u.calls[j] \in PosterCalls /\ u.calls[k] \in VideoCalls)
                        => j < k
              /\ (u.pc = "poster_failed" \/ u.outcome = "poster_failed")
                    => ~VideoLegAttempted(u)

C9_Witness ==
    \E i, j \in 1..Len(updates) :
        /\ updates[i].outcome = "poster_failed"
        /\ updates[i].pc = "done"
        /\ VideoLegAttempted(updates[j])

\* ------------------------------------------------------------------ C10
\* C10: when a run ends (in success or in failure) while the store holds,
\* for its conversation, a submission other than the one the run read at
\* line 126 - one handle_photo accepted while the run was suspended - the
\* end of the run leaves that submission in the store.
C10_NoLostSubmission ==
    [][\A i \in 1..MaxEvents :
          (/\ EndsRun(i)
           /\ updates[i].chat \in DOMAIN pending_movies
           /\ pending_movies[updates[i].chat] # updates[i].pending)
             => EntryKept(updates[i].chat)]_vars

\* ------------------------------------------------------------------ C11
\* The submission a run works on, identified by the time it was accepted
SameSubmission(u, v) ==
    /\ u.chat = v.chat
    /\ u.pending # NoPending
    /\ u.pending = v.pending

\* C11: the events of one conversation are processed one at a time, so a
\* video delivered twice for one accepted submission starts at most one
\* pipeline run: no two runs work on the same submission, and so there is
\* at most one catalog entry and one pair of blobs for it.
C11_OneRunPerSubmission ==
    \A i, j \in 1..Len(updates) :
        (i # j /\ Started(updates[i]) /\ Started(updates[j]))
            => ~SameSubmission(updates[i], updates[j])

\* ------------------------------------------------------------------ C13
\* C13: an update of a conversation other than the allow-listed one changes
\* nothing - not the store, the catalog, the bucket, the staged files or the
\* clock - gets no reply, and its handler is done at once; no invocation of
\* such a conversation ever has a reply, a push key or an external call.
C13_AllowListGate ==
    [][/\ (Delivers /\ Delivered.chat # ALLOWED_CHAT_ID)
            => /\ pending_movies' = pending_movies
               /\ catalog' = catalog
               /\ bucket' = bucket
               /\ tmpfiles' = tmpfiles
               /\ clock' = clock
               /\ Delivered.replies = <<>>
               /\ Delivered.pc = "done"
       /\ \A i \in 1..Len(updates) :
            updates[i].chat # ALLOWED_CHAT_ID
               => /\ updates'[i] = updates[i]
                  /\ updates[i].replies = <<>>
                  /\ updates[i].calls = <<>>
                  /\ updates[i].movie_id = 0]_vars

C13_Witness ==
    \E i, j \in 1..Len(updates) :
        /\ updates[i].chat # ALLOWED_CHAT_ID
        /\ updates[i].handler = "handle_photo"
        /\ IsCover(updates[i]) /\ HasTitledCaption(updates[i])
        /\ updates[j].chat # ALLOWED_CHAT_ID
        /\ updates[j].handler = "handle_video"

\* ------------------------------------------------------------------ C16
\* The temporary files run u created that are still on disk
StagedBy(u) == {f \in tmpfiles : u.movie_id # 0 /\ f.movie_id = u.movie_id}

\* C16: when a run has ended, in success or in failure, none of the
\* temporary files it created is left.
C16_StagedFilesReleased ==
    \A i \in 1..Len(updates) :
        updates[i].pc = "done" => StagedBy(updates[i]) = {}

\* ------------------------------------------------------------------ C19
\* C19: while a conversation awaits the video, every video event - a video
\* or a video document, with or without caption - reaches handle_video and
\* starts the upload pipeline.
C19_EveryVideoStartsPipeline ==
    [][(/\ Delivers
        /\ Delivered.chat = ALLOWED_CHAT_ID
        /\ IsVideo(Delivered)
        /\ Delivered.chat \in DOMAIN pending_movies)
          => /\ Delivered.handler = "handle_video"
             /\ Started(Delivered)]_vars

\* ------------------------------------------------------------------- C20
\* The cover the store entry came from when invocation i read it: the last
\* cover of the conversation accepted before i (0 when there is none).
CoverRead(i) ==
    LET cs == {j \in 1..(i - 1) : /\ updates[j].chat = updates[i].chat
                                  /\ updates[j].outcome = "accepted"}
    IN  IF cs = {} THEN 0 ELSE CHOOSE j \in cs : \A k \in cs : k <= j

\* The metadata fields of a catalog record
MetadataOf(r) ==
    [title |-> r.title, synopsis |-> r.synopsis, director |-> r.director,
     audio |-> r.audio, year |-> r.year, genres |-> r.genres]

\* C20: the record a handle_video run writes carries the metadata of the
\* cover whose entry the run read at its start, and the cover file the run
\* retrieved and uploaded is that same cover's file: one pair from one
\* submission, whatever handle_photo stored for the conversation while the
\* run was suspended.
C20_SnapshotConsistency ==
    \A i \in 1..Len(updates) :
        updates[i].outcome = "saved"
            => /\ CoverRead(i) # 0
               /\ MetadataOf(catalog[updates[i].movie_id])
                    = parse_metadata(updates[CoverRead(i)].body)
               /\ updates[i].poster_file = FileId(CoverRead(i))
               /\ catalog[updates[i].movie_id].posterUrl
                    = build_download_url(PosterBlob(updates[i].movie_id))

\* A run saved its record although a cover with another title replaced the
\* entry of the conversation while the run was suspended: the third update
\* is that cover, and its entry is gone because the run's pop removed it.
C20_Witness ==
    /\ Len(updates) = 3
    /\ updates[2].outcome = "saved"
    /\ updates[3].outcome = "accepted"
    /\ updates[3].chat = updates[2].chat
    /\ updates[3].body # updates[1].body
    /\ updates[1].outcome = "accepted"
    /\ updates[2].chat \notin DOMAIN pending_movies

\* ------------------------------------------------------------------- C12
\* The latest time the wall clock is followed to.
MaxClock == 5

\* The age, in clock units, past which an entry is expired and swept: the TTL
\* plus one sweep interval.
MaxAge == 2

\* Time passes between two steps of the handlers: time.time() grows.
Tick ==
    /\ clock < MaxClock
    /\ clock' = clock + 1
    /\ UNCHANGED <<pending_movies, catalog, bucket, tmpfiles, updates, elsewhere>>

NextTime == Next \/ Tick

\* The program with the passage of time
SpecTime == Init /\ [][NextTime]_vars

\* The entry of conversation c is older than the TTL and a sweep interval
Expired(c) ==
    /\ c \in DOMAIN pending_movies
    /\ clock - pending_movies[c].created_at > MaxAge

\* C12: an entry that is older than the TTL and one sweep interval is no
\* longer in the store, whether or not any update arrived meanwhile; and a
\* video delivered for a conversation whose entry has expired is answered as
\* a video without a submission and starts no pipeline run.
C12_ExpiredEntryEvicted ==
    [][/\ \A c \in Chats : ~Expired(c)'
       /\ (Delivers /\ IsVideo(Delivered) /\ Expired(Delivered.chat))
             => ~Started(Delivered)]_vars

\* ------------------------------------------------------ the parser alone
\* The number of pieces a caption is put together from.
MaxParts == 4

\* The pieces of the captions the parser is given: two line labels, the
\* synopsis label, the colon, blank, line break and a letter.
Pieces ==
    {LabelTitulo, LabelDiretor, LabelSinopse, <<":">>, <<" ">>, <<"\n">>, <<"D">>}

RECURSIVE Concats(_)
Concats(n) ==
    IF n = 0 THEN {EmptyStr}
    ELSE LET shorter == Concats(n - 1)
         IN  shorter \cup {t \o p : t \in shorter, p \in Pieces}

\* The captions: the empty one and every sequence of up to MaxParts pieces
Texts == Concats(MaxParts)

InitParse ==
    /\ BotInit /\ ServiceIdle /\ PostIdle
    /\ caption_text \in Texts
    /\ parsed = Unparsed

\* A call parse_metadata(text) returns
Parse ==
    /\ parsed = Unparsed
    /\ parsed' = parse_metadata(caption_text)
    /\ UNCHANGED <<pending_movies, catalog, bucket, tmpfiles, clock, updates,
                   caption_text, movies, saves, filmes, blobs, posts>>

NextParse == Parse

\* parse_metadata applied to every caption
SpecParse == InitParse /\ [][NextParse]_vars

\* ------------------------------------------------------------------- C17
\* The characters of the captions and of the placeholder
Chars == UNION {{p[k] : k \in 1..Len(p)} : p \in Pieces \cup {SemTitulo}}

\* v is a str
IsStr(v) == v # None /\ \A k \in 1..Len(v) : v[k] \in Chars

\* v is a str or None
IsOptionalStr(v) == v = None \/ IsStr(v)

\* C17: for every text, parse_metadata returns; the title it returns is a
\* non-empty string, the placeholder when the text has no title label or the
\* label's value is empty or blank; every other field is a string or None.
C17_TitleNeverEmpty ==
    parsed # Unparsed
        => /\ IsStr(parsed.title)
           /\ parsed.title # EmptyStr
           /\ Get(caption_text, LabelTitulo) \in {None, EmptyStr}
                 => parsed.title = SemTitulo
           /\ Get(caption_text, LabelTitulo) \notin {None, EmptyStr}
                 => parsed.title = Get(caption_text, LabelTitulo)
           /\ IsOptionalStr(parsed.synopsis)
           /\ IsOptionalStr(parsed.director)
           /\ IsOptionalStr(parsed.audio)
           /\ IsOptionalStr(parsed.year)
           /\ IsOptionalStr(parsed.genres)

\* A text whose title label is followed by a colon and a blank value was
\* parsed and got the placeholder.
C17_Witness ==
    /\ parsed # Unparsed
    /\ Contains(LabelTitulo \o <<":", " ">>, caption_text)
    /\ Get(caption_text, LabelTitulo) = EmptyStr
    /\ parsed.title = SemTitulo

\* ------------------------------------------------------------------- C18
\* The lines of the caption that contain the label, in any case
LinesWith(label) ==
    {k \in 1..Len(SplitLines(caption_text)) :
        Contains(Lower(label), Lower(SplitLines(caption_text)[k]))}

\* None of the lines that contain the label has a colon
NoColon(label) ==
    \A k \in LinesWith(label) : ~Contains(<<":">>, SplitLines(caption_text)[k])

\* The text after the first colon of the first line that contains the
\* label, trimmed
AfterColon(label) ==
    LET k == CHOOSE k \in LinesWith(label) : \A j \in LinesWith(label) : k <= j
    IN  Strip(SplitLast(SplitLines(caption_text)[k], <<":">>))

\* The field is absent when no line with its label has a colon, and the
\* text after the colon of the first line with the label otherwise
ColonField(label, field) ==
    /\ NoColon(label) => field = None
    /\ (LinesWith(label) # {} /\ ~NoColon(label)
          /\ Contains(<<":">>, SplitLines(caption_text)[
                CHOOSE k \in LinesWith(label) : \A j \in LinesWith(label) : k <= j]))
         => field = AfterColon(label)

\* C18: a label is matched only when a colon follows it: a field whose label
\* only occurs on lines without a colon is absent, and the title is then the
\* placeholder; the value of a matched field is the text after the first
\* colon of its line, trimmed.
C18_ColonRequired ==
    parsed # Unparsed
        => /\ NoColon(LabelTitulo) => parsed.title = SemTitulo
           /\ ColonField(LabelDiretor, parsed.director)
           /\ ColonField(LabelAudio, parsed.audio)
           /\ ColonField(LabelLancamento, parsed.year)
           /\ ColonField(LabelGeneros, parsed.genres)

\* ------------------------------------------------- firebase_service.py
\* The number of save_movie calls in one behaviour.
MaxSaves == 2

LowerLetters ==
    <<"a", "b", "c", "d", "e", "f", "g", "h", "i", "j", "k", "l", "m",
      "n", "o", "p", "q", "r", "s", "t", "u", "v", "w", "x", "y", "z">>

UpperLetters ==
    <<"A", "B", "C", "D", "E", "F", "G", "H", "I", "J", "K", "L", "M",
      "N", "O", "P", "Q", "R", "S", "T", "U", "V", "W", "X", "Y", "Z">>

Digits == <<"0", "1", "2", "3", "4", "5", "6", "7", "8", "9">>

\* The characters [a-zA-Z0-9]
Alnum ==
    {LowerLetters[k] : k \in DOMAIN LowerLetters}
      \cup {UpperLetters[k] : k \in DOMAIN UpperLetters}
      \cup {Digits[k] : k \in DOMAIN Digits}

\* The ASCII characters that are neither letters nor digits
AsciiPunct == {" ", "\n", "\t", "-", "_", "!", ":", "."}

\* unicodedata.normalize("NFKD", c).encode("ascii", "ignore"): an accented
\* letter leaves its base letter, any other non-ASCII character nothing
ToAscii(c) ==
    CASE c = "í" -> <<"i">>
      [] c = "Í" -> <<"I">>
      [] c = "á" -> <<"a">>
      [] c = "Á" -> <<"A">>
      [] c = "ê" -> <<"e">>
      [] c = "ç" -> <<"c">>
      [] c \in Alnum \cup AsciiPunct -> <<c>>
      [] OTHER -> <<>>

RECURSIVE AsciiOnly(_)
AsciiOnly(s) ==
    IF s = <<>> THEN <<>> ELSE ToAscii(Head(s)) \o AsciiOnly(Tail(s))

\* s without its leading characters outside [a-zA-Z0-9]
RECURSIVE SkipNonAlnum(_)
SkipNonAlnum(s) ==
    IF s # <<>> /\ Head(s) \notin Alnum THEN SkipNonAlnum(Tail(s)) ELSE s

\* re.sub(r"[^a-zA-Z0-9]+", "-", s)
RECURSIVE Dashed(_)
Dashed(s) ==
    IF s = <<>> THEN <<>>
    ELSE IF Head(s) \in Alnum THEN <<Head(s)>> \o Dashed(Tail(s))
    ELSE <<"-">> \o Dashed(SkipNonAlnum(Tail(s)))

\* s.strip("-")
RECURSIVE StripDashes(_)
StripDashes(s) ==
    IF s # <<>> /\ Head(s) = "-" THEN StripDashes(Tail(s))
    ELSE IF s # <<>> /\ s[Len(s)] = "-"
         THEN StripDashes(SubSeq(s, 1, Len(s) - 1))
         ELSE s

\* str.lower() on ASCII text
LowerAscii(s) ==
    [i \in 1..Len(s) |->
        IF \E k \in DOMAIN UpperLetters : UpperLetters[k] = s[i]
        THEN LowerLetters[CHOOSE k \in DOMAIN UpperLetters : UpperLetters[k] = s[i]]
        ELSE s[i]]

\* slugify(text)
slugify(s) ==
    LET slug == LowerAscii(StripDashes(Dashed(AsciiOnly(s))))
    IN  IF slug = EmptyStr THEN <<"f", "i", "l", "m", "e">> ELSE slug

\* str(n) of a natural number
RECURSIVE Decimal(_)
Decimal(n) ==
    IF n < 10 THEN <<Digits[n + 1]>>
    ELSE Decimal(n \div 10) \o <<Digits[(n % 10) + 1]>>

\* The dicts save_movie is called with.  A key may be missing; a title may
\* be None or empty; a year is an int.
MovieTitles ==
    {None, EmptyStr, <<"D">>, <<"d">>, <<"D", "!">>, <<"!">>, SemTitulo}

MovieYears == {0, 1999, 2000}

MovieSynopses == {<<"D">>, <<"d">>}

\* The dict with the keys whose set of values is not empty
MovieDict(titles, years, synopses) ==
    [k \in {x \in {"title", "year", "synopsis"} :
              \/ x = "title" /\ titles # {}
              \/ x = "year" /\ years # {}
              \/ x = "synopsis" /\ synopses # {}} |->
        CASE k = "title" -> CHOOSE v \in titles : TRUE
          [] k = "year" -> CHOOSE v \in years : TRUE
          [] OTHER -> CHOOSE v \in synopses : TRUE]

\* The sets with at most one element of S
AtMostOne(S) == {{}} \cup {{v} : v \in S}

MovieDicts ==
    {MovieDict(t, y, s) : t \in AtMostOne(MovieTitles),
                          y \in AtMostOne(MovieYears),
                          s \in AtMostOne(MovieSynopses)}

\* movie.get("title") or "Sem título"
TitleOf(movie) ==
    IF "title" \in DOMAIN movie /\ Truthy(movie["title"])
    THEN movie["title"] ELSE SemTitulo

\* movie.get("year") is truthy
HasYear(movie) == "year" \in DOMAIN movie /\ movie["year"] # 0

\* slugify(f"{title}-{year}" if year else title)
DocId(movie) ==
    slugify(IF HasYear(movie)
            THEN TitleOf(movie) \o <<"-">> \o Decimal(movie["year"])
            ELSE TitleOf(movie))

\* movie after movie["createdAt"] = now
Stamped(movie, now) ==
    [k \in DOMAIN movie \cup {"createdAt"} |->
        IF k = "createdAt" THEN now ELSE movie[k]]

\* document(doc_id).set(data, merge=True): the fields of data replace or
\* extend those the document has; a document that is not there is created
SetMerge(docs, doc_id, data) ==
    [d \in DOMAIN docs \cup {doc_id} |->
        IF d # doc_id THEN docs[d]
        ELSE IF doc_id \in DOMAIN docs
             THEN [k \in DOMAIN docs[d] \cup DOMAIN data |->
                      IF k \in DOMAIN data THEN data[k] ELSE docs[d][k]]
             ELSE data]

\* save_movie(movie); the write to Firestore may raise
save_movie(movie) ==
    /\ Len(saves) < MaxSaves
    /\ \E ok \in BOOLEAN :
          /\ saves' = Append(saves, [movie |-> movie, doc_id |-> DocId(movie),
                                     ok |-> ok])
          /\ movies' = IF ok
                       THEN SetMerge(movies, DocId(movie),
                                     Stamped(movie, Len(saves) + 1))
                       ELSE movies
    /\ UNCHANGED <<pending_movies, catalog, bucket, tmpfiles, clock, updates,
                   caption_text, parsed, filmes, blobs, posts>>

InitService == BotInit /\ ParserIdle /\ ServiceIdle /\ PostIdle

NextService == \E movie \in MovieDicts : save_movie(movie)

\* A program that calls save_movie for each movie it is given
SpecService == InitService /\ [][NextService]_vars

\* ------------------------------------------------------------------- C14
\* The last call of save_movie, made in this step, wrote its document
Saves == Len(saves') = Len(saves) + 1 /\ saves'[Len(saves')].ok

\* C14: a catalog record is created once and never changed: every save that
\* succeeds adds a record under an id no record had, whatever the title and
\* the year of the movie saved, and leaves every record that existed as it
\* was.
C14_SaveAddsNewRecord ==
    [][Saves => /\ DOMAIN movies' # DOMAIN movies
                /\ \A d \in DOMAIN movies :
                      d \in DOMAIN movies' /\ movies'[d] = movies[d]]_vars

\* ---------------------------------------------------------------- bot.py
\* The number of posts handled in one behaviour.
MaxPosts == 2

\* re.IGNORECASE on the letters of the labels
Fold(s) == LowerAscii(Lower(s))

\* The labels of REGEX_FILME, in the order the pattern has them
RxLabels ==
    <<<<"T", "í", "t", "u", "l", "o", ":">>,
      <<"A", "n", "o", ":">>,
      <<"C", "l", "a", "s", "s", "i", "f", "i", "c", "a", "ç", "ã", "o", ":">>,
      <<"G", "ê", "n", "e", "r", "o", "s", ":">>,
      <<"S", "i", "n", "o", "p", "s", "e", ":">>>>

\* No match
RxFail == <<>>

\* The first position from q on that holds no whitespace, Len + 1 when
\* there is none: where a greedy \s* stops
WsEnd(s, q) ==
    IF \E p \in q..Len(s) : s[p] \notin Whitespace
    THEN CHOOSE p \in q..Len(s) :
            /\ s[p] \notin Whitespace
            /\ \A r \in q..(p - 1) : s[r] \in Whitespace
    ELSE Len(s) + 1

\* The position of the first line break from q on, 0 when there is none
LineEnd(s, q) ==
    IF \E p \in q..Len(s) : s[p] = "\n"
    THEN CHOOSE p \in q..Len(s) :
            s[p] = "\n" /\ \A r \in q..(p - 1) : s[r] # "\n"
    ELSE 0

\* The k-th label stands at position p, in any case
LabelAt(s, k, p) == OccursAt(Fold(RxLabels[k]), Fold(s), p)

DigitSet == {Digits[k] : k \in DOMAIN Digits}

\* The rest of REGEX_FILME from the value of the k-th label on, the value
\* starting at or after q: the captured groups k..5, or RxFail.
\*   k = 5:     \s*(?P<sinopse>[\s\S]+)   the rest of the text
\*   k = 2:     \s*(?P<ano>\d{4})\n       four digits that end their line
\*   otherwise: \s*(.+?)\n                up to the end of the line; \s* gives
\*              back whitespace when the line holds nothing else
RECURSIVE MatchFrom(_, _, _)
MatchFrom(s, q, k) ==
    LET w == WsEnd(s, q)
        next(e) == e + 1 + Len(RxLabels[k + 1])
        follows(e) == /\ e # 0
                      /\ LabelAt(s, k + 1, e + 1)
                      /\ MatchFrom(s, next(e), k + 1) # RxFail
    IN  IF k = 5
        THEN IF w <= Len(s) THEN <<From(s, w)>>
             ELSE IF q <= Len(s) THEN <<From(s, Len(s))>>
             ELSE RxFail
        ELSE IF k = 2
        THEN IF /\ w + 4 <= Len(s)
                /\ \A d \in 0..3 : s[w + d] \in DigitSet
                /\ s[w + 4] = "\n"
                /\ follows(w + 4)
             THEN <<SubSeq(s, w, w + 3)>> \o MatchFrom(s, next(w + 4), 3)
             ELSE RxFail
        ELSE LET starts == {b \in q..w : /\ b <= Len(s)
                                         /\ s[b] # "\n"
                                         /\ follows(LineEnd(s, b + 1))}
             IN  IF starts = {} THEN RxFail
                 ELSE LET b == CHOOSE x \in starts : \A y \in starts : y <= x
                          e == LineEnd(s, b + 1)
                      IN  <<SubSeq(s, b, e - 1)>> \o MatchFrom(s, next(e), k + 1)

\* REGEX_FILME.search(caption): the groups titulo, ano, classificacao,
\* genero, sinopse of the leftmost match, or RxFail
REGEX_FILME_search(s) ==
    LET hits == {p \in 1..Len(s) :
                    /\ LabelAt(s, 1, p)
                    /\ MatchFrom(s, p + Len(RxLabels[1]), 1) # RxFail}
    IN  IF hits = {} THEN RxFail
        ELSE MatchFrom(s, (CHOOSE p \in hits : \A r \in hits : p <= r)
                             + Len(RxLabels[1]), 1)

\* s.replace(" ", "_")
Underscored(s) == [i \in 1..Len(s) |-> IF s[i] = " " THEN "_" ELSE s[i]]

\* metadados['titulo'].strip().replace(" ", "_").lower()
titulo_formatado(titulo) == Fold(Underscored(Strip(titulo)))

\* os.path.splitext(name)[1] of a file name without directories
SplitExt(name) ==
    LET dots == {p \in 1..Len(name) : name[p] = "."}
        last == CHOOSE p \in dots : \A r \in dots : r <= p
    IN  IF dots = {} THEN EmptyStr
        ELSE IF \A r \in 1..(last - 1) : name[r] = "." THEN EmptyStr
        ELSE From(name, last)

\* f"capas/{titulo_formatado}_{file_unique_id}.jpg"
capa_path_storage(tf, uid) ==
    <<"c", "a", "p", "a", "s", "/">> \o tf \o <<"_">> \o uid \o <<".", "j", "p", "g">>

\* f"videos/{titulo_formatado}_{file_unique_id}{extension}"
video_path_storage(tf, uid, extension) ==
    <<"v", "i", "d", "e", "o", "s", "/">> \o tf \o <<"_">> \o uid \o extension

\* message.video.file_name or "video.mp4"
VideoFileName(file_name) ==
    IF file_name = None \/ file_name = EmptyStr THEN <<"v", "i", "d", "e", "o", ".", "m", "p", "4">> ELSE file_name

\* A caption in the format of REGEX_FILME, with the given title
FilmCaption(titulo) ==
    <<"T", "í", "t", "u", "l", "o", ":", " ">> \o titulo
      \o <<"\n", "A", "n", "o", ":", " ", "1", "9", "9", "9", "\n", "C", "l", "a", "s", "s", "i", "f", "i", "c", "a", "ç", "ã", "o", ":", " ", "L", "\n", "G", "ê", "n", "e", "r", "o", "s", ":", " ", "D", "\n", "S", "i", "n", "o", "p", "s", "e", ":", " ", "D">>

\* The titles of the posts: one title, the same in lower case, and one
\* with a blank
PostTitles == {<<"D">>, <<"d">>, <<"D", " ", "d">>}

\* The captions of the posts: well-formed ones and one without the lines
\* that follow the title
PostCaptions == {FilmCaption(x) : x \in PostTitles} \cup {CaptionTitled}

\* file_unique_id of the files the posts carry
UniqueIds == {<<"x">>, <<"y">>}

\* The updates bot.py's handler is called with: filters.VIDEO &
\* filters.CAPTION has let them through, so each has a video and a caption;
\* a cover photo may be attached.
Posts ==
    [caption : PostCaptions, has_photo : BOOLEAN,
     photo_unique_id : UniqueIds, video_unique_id : UniqueIds,
     file_name : {None, <<"m", ".", "m", "k", "v">>}]

\* What REGEX_FILME.search finds in each caption, and the title part of the
\* paths of each caption that matches; computed once
GroupsOf == [c \in PostCaptions |-> REGEX_FILME_search(c)]

FormattedOf ==
    [c \in PostCaptions |->
        IF GroupsOf[c] = RxFail THEN EmptyStr
        ELSE titulo_formatado(GroupsOf[c][1])]

\* The blobs after upload_from_string wrote the paths for post n
Uploaded(store, paths, n) ==
    [p \in DOMAIN store \cup paths |-> IF p \in paths THEN n ELSE store[p]]

\* handle_video_post, whole: run_polling handles one update at a time.  The
\* try block raises at the cover upload, at the video upload or at the
\* Firestore add, or it completes; the except block raises NameError at its
\* first statement (logger is not defined), so no failure reply is sent.
handle_video_post(e) ==
    /\ Len(posts) < MaxPosts
    /\ LET n == Len(posts) + 1
           groups == GroupsOf[e.caption]
           tf == FormattedOf[e.caption]
           capa == capa_path_storage(tf, e.photo_unique_id)
           video == video_path_storage(tf, e.video_unique_id,
                                       SplitExt(VideoFileName(e.file_name)))
           done(outcome, paths, replies) ==
               posts' = Append(posts, [post |-> e, outcome |-> outcome,
                                       paths |-> paths, replies |-> replies])
       IN  IF ~e.has_photo
           THEN /\ done("ignored", {}, <<"ignored">>)
                /\ UNCHANGED <<blobs, filmes>>
           ELSE IF groups = RxFail
           THEN /\ done("bad_format", {}, <<"bad_format">>)
                /\ UNCHANGED <<blobs, filmes>>
           ELSE \E end \in {"capa", "video", "add", "ok"} :
                  CASE end = "capa" ->
                         /\ done("raised", {}, <<"detected">>)
                         /\ UNCHANGED <<blobs, filmes>>
                    [] end = "video" ->
                         /\ done("raised", {capa}, <<"detected", "capa_sent">>)
                         /\ blobs' = Uploaded(blobs, {capa}, n)
                         /\ UNCHANGED filmes
                    [] end = "add" ->
                         /\ done("raised", {capa, video},
                                 <<"detected", "capa_sent", "video_sent">>)
                         /\ blobs' = Uploaded(blobs, {capa, video}, n)
                         /\ UNCHANGED filmes
                    [] OTHER ->
                         /\ done("catalogued", {capa, video},
                                 <<"detected", "capa_sent", "video_sent",
                                   "catalogued">>)
                         /\ blobs' = Uploaded(blobs, {capa, video}, n)
                         /\ filmes' = Append(filmes,
                                [titulo |-> Strip(groups[1]),
                                 ano |-> Strip(groups[2]),
                                 classificacao |-> Strip(groups[3]),
                                 genero |-> Strip(groups[4]),
                                 sinopse |-> Strip(groups[5]),
                                 capaUrl |-> <<"gs://">> \o capa,
                                 videoUrl |-> <<"gs://">> \o video])
    /\ UNCHANGED <<pending_movies, catalog, bucket, tmpfiles, clock, updates,
                   caption_text, parsed, movies, saves>>

InitPost == BotInit /\ ParserIdle /\ ServiceIdle /\ PostIdle

NextPost == \E e \in Posts : handle_video_post(e)

\* bot.py: the polling application
SpecPost == InitPost /\ [][NextPost]_vars

\* ------------------------------------------------------------------- C15
\* C15: the blob paths of a pipeline run are its own: two different runs
\* never write the same path, whatever their titles and artifacts, so no
\* run overwrites a blob another run wrote.
C15_DisjointBlobPaths ==
    \A i, j \in 1..Len(posts) :
        i # j => posts[i].paths \cap posts[j].paths = {}
=============================================================================
